---- MODULE Spec2Model ----
(***************************************************************************)
(* A model of the spaCy pipeline component PyThaiNLP                       *)
(* (src/spacy_pythainlp/core.py): sentence alignment (_sent), entity span  *)
(* building (_ner), dependency parsing (_dep) and the dispatch in __call__.*)
(*                                                                         *)
(* Strings are sequences of one-character strings, so that the substring   *)
(* test, startswith, endswith and replace are computed and not assumed.    *)
(***************************************************************************)
EXTENDS Integers, Sequences, FiniteSets, TLC

VARIABLES
    \* ---- _sent ----
    sentences,      \* sent_tokenize's result, each sentence a list of token texts
    doc,            \* the texts of the document's tokens, in order
    is_sent_start,  \* per token: "None" (not written), "True" or "False"
    tokenized,      \* word_tokenize of the marker-joined text
    new_tokens,     \* the processed (marker-split) stream
    number_skip,
    seen_break,
    k,              \* position of the first loop (for word in tokenized)
    i,              \* position of the second loop (enumerate(new_tokens))
    pc,
    writes,         \* history: <<i, number_skip, document index>> per flag write
    \* ---- _ner ----
    ner_tags,       \* the (word, tag) pairs of self.ner.tag over all segments
    entity_spans,   \* the list built by the pass: <<start, end, label>>
    char_offset,
    current_entity_label,
    ner_i,          \* position of "for i, (word, tag) in enumerate(ner_tags)"
    ents,           \* doc.ents
    ner_pc,
    \* ---- __call__ and _dep ----
    on_tokenize, on_sent, on_pos, on_ner, dependency_parsing,  \* self.*
    configured,        \* history: the constructor's tokenize and sent arguments
    settings_at_call,  \* history: the switches when the current call began
    calls,             \* the number of calls made
    call_pc,
    dep_output,        \* dependency_parsing(text, ..., tag="list")
    dep_i,             \* position of "for fields in dep_output"
    words, spaces, pos_tags, deps, heads,
    dep_doc,           \* what _dep returned: << >> or << Doc >>
    error,             \* the exception raised: << >> or << exception >>
    ran,               \* the stages the call ran after _dep, in order
    result,            \* what __call__ returned: "none", "input doc" or "new doc"
    input_mutated      \* the Doc passed in was annotated in place

sent_vars == <<sentences, doc, is_sent_start, tokenized, new_tokens,
               number_skip, seen_break, k, i, pc, writes>>

ner_vars == <<ner_tags, entity_spans, char_offset, current_entity_label,
              ner_i, ents, ner_pc>>

call_vars == <<on_tokenize, on_sent, on_pos, on_ner, dependency_parsing,
               configured, settings_at_call, calls, call_pc, dep_output, dep_i,
               words, spaces, pos_tags, deps, heads, dep_doc, error, ran,
               result, input_mutated>>

vars == <<sent_vars, ner_vars, call_vars>>

\* ------------------------------------------------------------------ bounds
MaxTokens == 4
MaxNerTokens == 3
MaxWordLen == 3
MaxRecords == 2
MaxExtra == 2
MaxCalls == 2
MaxStream == 4

\* ------------------------------------------------------------------ strings
SENTENCE_SPLIT_MARKER == <<"S", "P", "L", "I", "T">>

EmptyStr == << >>

\* The token texts a document is built from.
Words == { <<"a">>, <<"b">> }

\* s.startswith(m)
StartsWith(s, m) ==
    /\ Len(m) <= Len(s)
    /\ SubSeq(s, 1, Len(m)) = m

\* s.endswith(m)
EndsWith(s, m) ==
    /\ Len(m) <= Len(s)
    /\ SubSeq(s, Len(s) - Len(m) + 1, Len(s)) = m

\* m in s
Contains(s, m) ==
    \E p \in 1..(Len(s) - Len(m) + 1) : SubSeq(s, p, p + Len(m) - 1) = m

\* s.replace(m, ''): every occurrence of m removed, scanning left to right
RECURSIVE Remove(_, _)
Remove(s, m) ==
    IF Len(s) < Len(m) THEN s
    ELSE IF SubSeq(s, 1, Len(m)) = m
         THEN Remove(SubSeq(s, Len(m) + 1, Len(s)), m)
         ELSE <<Head(s)>> \o Remove(Tail(s), m)

\* ------------------------------------------------------------------ inputs
\* All documents of 1..MaxTokens tokens.
Docs == UNION { [1..n -> Words] : n \in 1..MaxTokens }

\* The sentence spans of document d cut after the tokens in cut.
RECURSIVE SplitAt(_, _, _)
SplitAt(d, cut, from) ==
    LET next == { c \in cut : c >= from }
    IN  IF next = {} THEN << SubSeq(d, from, Len(d)) >>
        ELSE LET c == CHOOSE x \in next : \A y \in next : x <= y
             IN  << SubSeq(d, from, c) >> \o SplitAt(d, cut, c + 1)

\* The marker-joined text as its atoms: the document's tokens in order, with
\* the marker after every token that ends a sentence but the last.
RECURSIVE Atoms(_, _, _)
Atoms(d, cut, j) ==
    IF j > Len(d) THEN << >>
    ELSE << d[j] >> \o (IF j \in cut THEN << SENTENCE_SPLIT_MARKER >> ELSE << >>)
                   \o Atoms(d, cut, j + 1)

\* word_tokenize of the joined text: a segmentation of it. The tokenizer is
\* free in where it cuts; glue is the set of atom gaps it does not cut at
\* (gap p lies between atom p and atom p + 1).
RECURSIVE Group(_, _, _, _)
Group(atoms, glue, p, acc) ==
    IF p > Len(atoms) THEN << >>
    ELSE IF p \in glue /\ p < Len(atoms)
         THEN Group(atoms, glue, p + 1, acc \o atoms[p])
         ELSE << acc \o atoms[p] >> \o Group(atoms, glue, p + 1, EmptyStr)

word_tokenize(d, cut, glue) == Group(Atoms(d, cut, 1), glue, 1, EmptyStr)

\* ------------------------------------------------------------------ _sent
SentInit ==
    \E d \in Docs :
      \E cut \in SUBSET (1..(Len(d) - 1)) :
        \E glue \in SUBSET (1..(Len(d) + Cardinality(cut) - 1)) :
          /\ doc = d
          /\ sentences = SplitAt(d, cut, 1)
          /\ tokenized = word_tokenize(d, cut, glue)
          /\ is_sent_start = [t \in 1..Len(d) |-> "None"]
          /\ new_tokens = << >>
          /\ number_skip = 0
          /\ seen_break = FALSE
          /\ k = 0
          /\ i = 0
          /\ pc = "split"
          /\ writes = << >>

\* Any stream: the host tokenizer that built doc and word_tokenize are
\* different functions, and the text may contain the marker word itself, so
\* tokenized need not agree with doc in length or in where markers stand.
StreamElements ==
    { <<"a">>,
      SENTENCE_SPLIT_MARKER,
      SENTENCE_SPLIT_MARKER \o <<"a">>,
      <<"a">> \o SENTENCE_SPLIT_MARKER,
      <<"a">> \o SENTENCE_SPLIT_MARKER \o <<"a">> }

Streams == UNION { [1..n -> StreamElements] : n \in 1..MaxStream }

SentInitAny ==
    \E n \in 1..MaxTokens :
        /\ doc = [t \in 1..n |-> <<"a">>]
        /\ sentences = << doc >>
        /\ tokenized \in Streams
        /\ is_sent_start = [t \in 1..n |-> "None"]
        /\ new_tokens = << >>
        /\ number_skip = 0
        /\ seen_break = FALSE
        /\ k = 0
        /\ i = 0
        /\ pc = "split"
        /\ writes = << >>

\* What one element of tokenized appends to new_tokens.
SplitWord(word) ==
    IF Contains(word, SENTENCE_SPLIT_MARKER)
    THEN IF StartsWith(word, SENTENCE_SPLIT_MARKER)
         THEN << SENTENCE_SPLIT_MARKER, Remove(word, SENTENCE_SPLIT_MARKER) >>
         ELSE IF EndsWith(word, SENTENCE_SPLIT_MARKER)
              THEN << Remove(word, SENTENCE_SPLIT_MARKER), SENTENCE_SPLIT_MARKER >>
              ELSE << word >>
    ELSE << word >>

\* One iteration of "for word in tokenized".
SplitStep ==
    /\ pc = "split"
    /\ k < Len(tokenized)
    /\ new_tokens' = new_tokens \o SplitWord(tokenized[k + 1])
    /\ k' = k + 1
    /\ UNCHANGED <<sentences, doc, is_sent_start, tokenized, number_skip,
                   seen_break, i, pc, writes>>
    /\ UNCHANGED <<ner_vars, call_vars>>

SplitDone ==
    /\ pc = "split"
    /\ k = Len(tokenized)
    /\ pc' = "walk"
    /\ UNCHANGED <<sentences, doc, is_sent_start, tokenized, new_tokens,
                   number_skip, seen_break, k, i, writes>>
    /\ UNCHANGED <<ner_vars, call_vars>>

\* Mapped with the skip counter added where it is subtracted
Mapped_SkipAdded == i + number_skip

\* The document index the walk is at: i - number_skip (0-based).
Mapped == i - number_skip

\* doc[i - number_skip].is_sent_start = v; an index outside the document
\* raises IndexError.
SetSentStart(v) ==
    IF Mapped \in 0..(Len(doc) - 1)
    THEN /\ is_sent_start' = [is_sent_start EXCEPT ![Mapped + 1] = v]
         /\ writes' = Append(writes, <<i, number_skip, Mapped>>)
         /\ pc' = pc
    ELSE /\ pc' = "IndexError"
         /\ UNCHANGED <<is_sent_start, writes>>

InWalk ==
    /\ pc = "walk"
    /\ i < Len(new_tokens)

\* if i - number_skip == len(doc) - 1: break
WalkBreak ==
    /\ InWalk
    /\ Mapped = Len(doc) - 1
    /\ pc' = "done"
    /\ UNCHANGED <<sentences, doc, is_sent_start, tokenized, new_tokens,
                   number_skip, seen_break, k, i, writes>>
    /\ UNCHANGED <<ner_vars, call_vars>>

\* elif i == 0
WalkFirst ==
    /\ InWalk
    /\ Mapped # Len(doc) - 1
    /\ i = 0
    /\ SetSentStart("True")
    /\ i' = i + 1
    /\ UNCHANGED <<sentences, doc, tokenized, new_tokens, number_skip,
                   seen_break, k>>
    /\ UNCHANGED <<ner_vars, call_vars>>

\* elif seen_break
WalkAfterBreak ==
    /\ InWalk
    /\ Mapped # Len(doc) - 1
    /\ i # 0
    /\ seen_break
    /\ SetSentStart("True")
    /\ seen_break' = FALSE
    /\ i' = i + 1
    /\ UNCHANGED <<sentences, doc, tokenized, new_tokens, number_skip, k>>
    /\ UNCHANGED <<ner_vars, call_vars>>

\* elif SENTENCE_SPLIT_MARKER in word
WalkMarker ==
    /\ InWalk
    /\ Mapped # Len(doc) - 1
    /\ i # 0
    /\ ~seen_break
    /\ Contains(new_tokens[i + 1], SENTENCE_SPLIT_MARKER)
    /\ seen_break' = TRUE
    /\ number_skip' = number_skip + 1
    /\ i' = i + 1
    /\ UNCHANGED <<sentences, doc, is_sent_start, tokenized, new_tokens,
                   k, pc, writes>>
    /\ UNCHANGED <<ner_vars, call_vars>>

\* else
WalkOther ==
    /\ InWalk
    /\ Mapped # Len(doc) - 1
    /\ i # 0
    /\ ~seen_break
    /\ ~Contains(new_tokens[i + 1], SENTENCE_SPLIT_MARKER)
    /\ SetSentStart("False")
    /\ i' = i + 1
    /\ UNCHANGED <<sentences, doc, tokenized, new_tokens, number_skip,
                   seen_break, k>>
    /\ UNCHANGED <<ner_vars, call_vars>>

\* new_tokens is exhausted: the loop ends and _sent returns doc
WalkEnd ==
    /\ pc = "walk"
    /\ i = Len(new_tokens)
    /\ pc' = "done"
    /\ UNCHANGED <<sentences, doc, is_sent_start, tokenized, new_tokens,
                   number_skip, seen_break, k, i, writes>>
    /\ UNCHANGED <<ner_vars, call_vars>>

SentNext ==
    \/ SplitStep
    \/ SplitDone
    \/ WalkBreak
    \/ WalkFirst
    \/ WalkAfterBreak
    \/ WalkMarker
    \/ WalkOther
    \/ WalkEnd

\* ------------------------------------------------------------------ _ner
NER_TAG_BEGIN == <<"B", "-">>

NER_TAG_OUTSIDE == <<"O">>

\* list slots that hold None
None == -1

\* The tags of the tagger: O, B-<label> and I-<label>.
NerTagSet == { NER_TAG_OUTSIDE, <<"B", "-", "X">>, <<"B", "-", "Y">>, <<"I", "-", "X">> }

\* The token texts of the tagger: non-empty, of 1..MaxWordLen characters.
NerWords == { [c \in 1..n |-> "w"] : n \in 1..MaxWordLen }

NerInputs == UNION { [1..n -> NerWords \X NerTagSet] : n \in 0..MaxNerTokens }

NerInit ==
    /\ ner_tags \in NerInputs
    /\ entity_spans = << >>
    /\ char_offset = 0
    /\ current_entity_label = EmptyStr
    /\ ner_i = 0
    /\ ents = << >>
    /\ ner_pc = "pass"

InPass ==
    /\ ner_pc = "pass"
    /\ ner_i < Len(ner_tags)

word == ner_tags[ner_i + 1][1]

tag == ner_tags[ner_i + 1][2]

word_length == Len(word)

is_last == (ner_i + 1 = Len(ner_tags))

\* a label is open: current_entity_label is a non-empty string
LabelOpen == current_entity_label # EmptyStr

\* LabelOf with the replace forgotten: the tag itself is the label
LabelOf_TagKept(t) == t

\* tag.replace(NER_TAG_BEGIN, "")
LabelOf(t) == Remove(t, NER_TAG_BEGIN)

\* entity_spans[-1][1] = e
CloseLast(spans, e) == [spans EXCEPT ![Len(spans)][2] = e]

\* char_offset += word_length, and the loop moves on
Advance ==
    /\ char_offset' = char_offset + word_length
    /\ ner_i' = ner_i + 1

\* The conditions of the if / elif chain, in order.
Branch1 == is_last /\ LabelOpen

Branch2 == is_last /\ StartsWith(tag, NER_TAG_BEGIN)

Branch3 == StartsWith(tag, NER_TAG_BEGIN) /\ ~LabelOpen

Branch4 == StartsWith(tag, NER_TAG_BEGIN) /\ LabelOpen

Branch5 == tag = NER_TAG_OUTSIDE /\ LabelOpen

\* if is_last and current_entity_label
NerCloseAtLast ==
    /\ InPass
    /\ Branch1
    /\ entity_spans' = CloseLast(entity_spans, char_offset + word_length)
    /\ Advance
    /\ UNCHANGED <<ner_tags, current_entity_label, ents, ner_pc>>
    /\ UNCHANGED <<sent_vars, call_vars>>

\* NerBeginAtLast with the span's end left at the token's start
NerBeginAtLast_EndAtStart ==
    /\ InPass
    /\ ~Branch1 /\ Branch2
    /\ entity_spans' = Append(entity_spans, <<char_offset, char_offset, LabelOf(tag)>>)
    /\ Advance
    /\ UNCHANGED <<ner_tags, current_entity_label, ents, ner_pc>>
    /\ UNCHANGED <<sent_vars, call_vars>>

\* elif is_last and tag.startswith(NER_TAG_BEGIN)
NerBeginAtLast ==
    /\ InPass
    /\ ~Branch1 /\ Branch2
    /\ entity_spans' = Append(entity_spans,
                              <<char_offset, char_offset + word_length, LabelOf(tag)>>)
    /\ Advance
    /\ UNCHANGED <<ner_tags, current_entity_label, ents, ner_pc>>
    /\ UNCHANGED <<sent_vars, call_vars>>

\* elif tag.startswith(NER_TAG_BEGIN) and not current_entity_label
NerBegin ==
    /\ InPass
    /\ ~Branch1 /\ ~Branch2 /\ Branch3
    /\ current_entity_label' = LabelOf(tag)
    /\ entity_spans' = Append(entity_spans, <<char_offset, None, LabelOf(tag)>>)
    /\ Advance
    /\ UNCHANGED <<ner_tags, ents, ner_pc>>
    /\ UNCHANGED <<sent_vars, call_vars>>

\* NerBeginAfterOpen with the open span closed behind the new token
NerBeginAfterOpen_ClosedLate ==
    /\ InPass
    /\ ~Branch1 /\ ~Branch2 /\ ~Branch3 /\ Branch4
    /\ current_entity_label' = LabelOf(tag)
    /\ entity_spans' = Append(CloseLast(entity_spans, char_offset + word_length),
                              <<char_offset, None, LabelOf(tag)>>)
    /\ Advance
    /\ UNCHANGED <<ner_tags, ents, ner_pc>>
    /\ UNCHANGED <<sent_vars, call_vars>>

\* elif tag.startswith(NER_TAG_BEGIN) and current_entity_label
NerBeginAfterOpen ==
    /\ InPass
    /\ ~Branch1 /\ ~Branch2 /\ ~Branch3 /\ Branch4
    /\ current_entity_label' = LabelOf(tag)
    /\ entity_spans' = Append(CloseLast(entity_spans, char_offset),
                              <<char_offset, None, LabelOf(tag)>>)
    /\ Advance
    /\ UNCHANGED <<ner_tags, ents, ner_pc>>
    /\ UNCHANGED <<sent_vars, call_vars>>

\* NerOutside with the open label not cleared
NerOutside_LabelKept ==
    /\ InPass
    /\ ~Branch1 /\ ~Branch2 /\ ~Branch3 /\ ~Branch4 /\ Branch5
    /\ entity_spans' = CloseLast(entity_spans, char_offset)
    /\ Advance
    /\ UNCHANGED <<ner_tags, current_entity_label, ents, ner_pc>>
    /\ UNCHANGED <<sent_vars, call_vars>>

\* elif tag == NER_TAG_OUTSIDE and current_entity_label
NerOutside ==
    /\ InPass
    /\ ~Branch1 /\ ~Branch2 /\ ~Branch3 /\ ~Branch4 /\ Branch5
    /\ entity_spans' = CloseLast(entity_spans, char_offset)
    /\ current_entity_label' = EmptyStr
    /\ Advance
    /\ UNCHANGED <<ner_tags, ents, ner_pc>>
    /\ UNCHANGED <<sent_vars, call_vars>>

\* no branch is taken: only char_offset advances
NerNoBranch ==
    /\ InPass
    /\ ~Branch1 /\ ~Branch2 /\ ~Branch3 /\ ~Branch4 /\ ~Branch5
    /\ Advance
    /\ UNCHANGED <<ner_tags, entity_spans, current_entity_label, ents, ner_pc>>
    /\ UNCHANGED <<sent_vars, call_vars>>

\* The subsequences of a list, as the sets of positions kept.
Kept(spans, keep) ==
    LET F[n \in 0..Len(spans)] ==
            IF n = 0 THEN << >>
            ELSE IF n \in keep THEN Append(F[n - 1], spans[n]) ELSE F[n - 1]
    IN  F[Len(spans)]

\* The pass is over: doc.char_span(start, end, label, "contract") per span,
\* which the document answers with a span or with None (dropped), and
\* doc.ents = entities.
NerSetEnts ==
    /\ ner_pc = "pass"
    /\ ner_i = Len(ner_tags)
    /\ \E keep \in SUBSET (1..Len(entity_spans)) : ents' = Kept(entity_spans, keep)
    /\ ner_pc' = "done"
    /\ UNCHANGED <<ner_tags, entity_spans, char_offset, current_entity_label, ner_i>>
    /\ UNCHANGED <<sent_vars, call_vars>>

NerNext ==
    \/ NerCloseAtLast
    \/ NerBeginAtLast
    \/ NerBegin
    \/ NerBeginAfterOpen
    \/ NerOutside
    \/ NerNoBranch
    \/ NerSetEnts

\* ------------------------------------------------------------------ _dep
\* the field-count threshold of line 251
MinFields == 10

\* Two CoNLL-U rows (index, word, lemma, upos, xpos, feats, head, deprel,
\* deps, misc), followed by fields beyond the 10th.
Rows == { <<"1", "w1", "l1", "PRON", "XP1", "f1", "1", "nsubj", "d1", "_",
            "extra1", "extra2", "extra3">>,
          <<"2", "w2", "l2", "VERB", "XP2", "f2", "0", "root", "d2", "m2",
            "_", "extra4", "extra5">> }

\* The records of the parser: a row cut to MinFields - 2 .. MinFields + MaxExtra fields.
Records == { SubSeq(r, 1, n) : r \in Rows, n \in (MinFields - 2)..(MinFields + MaxExtra) }

DepOutputs == UNION { [1..n -> Records] : n \in 0..MaxRecords }

\* str(n) for a natural number
Digit(n) == CASE n = 0 -> "0" [] n = 1 -> "1" [] n = 2 -> "2" [] n = 3 -> "3"
              [] n = 4 -> "4" [] n = 5 -> "5" [] n = 6 -> "6" [] n = 7 -> "7"
              [] n = 8 -> "8" [] n = 9 -> "9"

RECURSIVE Str(_)
Str(n) == IF n < 10 THEN << Digit(n) >> ELSE Str(n \div 10) \o << Digit(n % 10) >>

\* int(head) for the head fields of Rows
int(s) == CASE s = "0" -> 0 [] s = "1" -> 1 [] s = "2" -> 2

\* ErrorMessage naming the threshold where the field count belongs
ErrorMessage_GotThreshold(n) ==
    <<"E", "x", "p", "e", "c", "t", "e", "d", " ", "a", "t", " ", "l", "e",
      "a", "s", "t", " ", "1", "0", " ", "f", "i", "e", "l", "d", "s", " ",
      "i", "n", " ", "d", "e", "p", "e", "n", "d", "e", "n", "c", "y", " ",
      "p", "a", "r", "s", "i", "n", "g", " ", "o", "u", "t", "p", "u", "t",
      ",", " ", "g", "o", "t", " ">> \o Str(MinFields)

\* f"Expected at least 10 fields in dependency parsing output, got {len(fields)}"
ErrorMessage(n) ==
    <<"E", "x", "p", "e", "c", "t", "e", "d", " ", "a", "t", " ", "l", "e",
      "a", "s", "t", " ", "1", "0", " ", "f", "i", "e", "l", "d", "s", " ",
      "i", "n", " ", "d", "e", "p", "e", "n", "d", "e", "n", "c", "y", " ",
      "p", "a", "r", "s", "i", "n", "g", " ", "o", "u", "t", "p", "u", "t",
      ",", " ", "g", "o", "t", " ">> \o Str(n)

\* len(fields) < 10
TooFew(fields) == Len(fields) < MinFields

\* Unpack without the slice: the last field is taken for misc
Unpack_LastField(fields) ==
    [word |-> fields[2], postag |-> fields[4], head |-> fields[7], dep |-> fields[8],
     space |-> fields[Len(fields)]]

\* idx, word, _, postag, _, _, head, dep, _, space = fields[:10]
Unpack(fields) ==
    LET f == SubSeq(fields, 1, 10)
    IN  [word |-> f[2], postag |-> f[4], head |-> f[7], dep |-> f[8], space |-> f[10]]

fields == dep_output[dep_i + 1]

\* the component's switches, as a record
Settings ==
    [dependency_parsing |-> dependency_parsing, on_tokenize |-> on_tokenize,
     on_sent |-> on_sent, on_pos |-> on_pos, on_ner |-> on_ner]

\* The state of one call before it starts.
NoCall ==
    /\ dep_output = << >>
    /\ dep_i = 0
    /\ words = << >>
    /\ spaces = << >>
    /\ pos_tags = << >>
    /\ deps = << >>
    /\ heads = << >>
    /\ dep_doc = << >>
    /\ error = << >>
    /\ ran = << >>
    /\ result = "none"
    /\ input_mutated = FALSE

\* __init__: the switches are the constructor's arguments
CallInit ==
    /\ on_tokenize \in BOOLEAN
    /\ on_sent \in BOOLEAN
    /\ on_pos \in BOOLEAN
    /\ on_ner \in BOOLEAN
    /\ dependency_parsing \in BOOLEAN
    /\ configured = [tokenize |-> on_tokenize, sent |-> on_sent]
    /\ settings_at_call = Settings
    /\ calls = 0
    /\ call_pc = "idle"
    /\ NoCall

\* Between two calls the owner of the component sets its public attribute
\* dependency_parsing.
SetDependencyParsing ==
    /\ call_pc = "idle"
    /\ calls > 0
    /\ dependency_parsing' = ~dependency_parsing
    /\ settings_at_call' = [settings_at_call EXCEPT !.dependency_parsing = ~dependency_parsing]
    /\ UNCHANGED <<on_tokenize, on_sent, on_pos, on_ner, configured, calls, call_pc,
                   dep_output, dep_i, words, spaces, pos_tags, deps, heads,
                   dep_doc, error, ran, result, input_mutated>>
    /\ UNCHANGED <<sent_vars, ner_vars>>

\* __call__ with self.dependency_parsing on: _dep starts and gets the
\* parser's output
CallDep ==
    /\ call_pc = "idle"
    /\ calls < MaxCalls
    /\ dependency_parsing
    /\ calls' = calls + 1
    /\ settings_at_call' = Settings
    /\ dep_output' \in DepOutputs
    /\ call_pc' = "dep"
    /\ UNCHANGED <<on_tokenize, on_sent, on_pos, on_ner, dependency_parsing,
                   configured, dep_i, words, spaces, pos_tags, deps, heads,
                   dep_doc, error, ran, result, input_mutated>>
    /\ UNCHANGED <<sent_vars, ner_vars>>

\* __call__ with self.dependency_parsing off
CallNoDep ==
    /\ call_pc = "idle"
    /\ calls < MaxCalls
    /\ ~dependency_parsing
    /\ calls' = calls + 1
    /\ settings_at_call' = Settings
    /\ call_pc' = "stages"
    /\ UNCHANGED <<on_tokenize, on_sent, on_pos, on_ner, dependency_parsing,
                   configured, dep_output, dep_i, words, spaces, pos_tags, deps,
                   heads, dep_doc, error, ran, result, input_mutated>>
    /\ UNCHANGED <<sent_vars, ner_vars>>

\* for fields in dep_output: a record of too few fields raises ValueError
DepRaise ==
    /\ call_pc = "dep"
    /\ dep_i < Len(dep_output)
    /\ TooFew(fields)
    /\ error' = << [type |-> "ValueError", message |-> ErrorMessage(Len(fields))] >>
    /\ call_pc' = "raised"
    /\ UNCHANGED <<on_tokenize, on_sent, on_pos, on_ner, dependency_parsing,
                   configured, settings_at_call, calls, dep_output, dep_i, words,
                   spaces, pos_tags, deps, heads, dep_doc, ran, result,
                   input_mutated>>
    /\ UNCHANGED <<sent_vars, ner_vars>>

\* for fields in dep_output: the record's fields are appended to the lists
DepStep ==
    /\ call_pc = "dep"
    /\ dep_i < Len(dep_output)
    /\ ~TooFew(fields)
    /\ LET u == Unpack(fields)
       IN  /\ words' = Append(words, u.word)
           /\ pos_tags' = Append(pos_tags, u.postag)
           /\ heads' = Append(heads, int(u.head))
           /\ deps' = Append(deps, u.dep)
           /\ spaces' = Append(spaces, u.space = "_")
    /\ dep_i' = dep_i + 1
    /\ UNCHANGED <<on_tokenize, on_sent, on_pos, on_ner, dependency_parsing,
                   configured, settings_at_call, calls, call_pc, dep_output,
                   dep_doc, error, ran, result, input_mutated>>
    /\ UNCHANGED <<sent_vars, ner_vars>>

\* return Doc(self.nlp.vocab, words=..., spaces=..., pos=..., deps=..., heads=...)
DepReturn ==
    /\ call_pc = "dep"
    /\ dep_i = Len(dep_output)
    /\ dep_doc' = << [words |-> words, spaces |-> spaces, pos |-> pos_tags,
                      deps |-> deps, heads |-> heads] >>
    /\ call_pc' = "after_dep"
    /\ UNCHANGED <<on_tokenize, on_sent, on_pos, on_ner, dependency_parsing,
                   configured, settings_at_call, calls, dep_output, dep_i, words,
                   spaces, pos_tags, deps, heads, error, ran, result,
                   input_mutated>>
    /\ UNCHANGED <<sent_vars, ner_vars>>

\* ------------------------------------------------------------------ __call__
\* doc = self._dep(doc) has returned: self.on_tokenize = False; self.on_sent = False
CallAfterDep ==
    /\ call_pc = "after_dep"
    /\ on_tokenize' = FALSE
    /\ on_sent' = FALSE
    /\ call_pc' = "stages"
    /\ UNCHANGED <<on_pos, on_ner, dependency_parsing, configured,
                   settings_at_call, calls, dep_output, dep_i, words, spaces,
                   pos_tags, deps, heads, dep_doc, error, ran, result,
                   input_mutated>>
    /\ UNCHANGED <<sent_vars, ner_vars>>

\* The stages whose switch is on, in the order __call__ runs them.
StagesOn ==
    (IF on_tokenize THEN << "tokenize" >> ELSE << >>) \o
    (IF on_sent THEN << "sent" >> ELSE << >>) \o
    (IF on_pos THEN << "pos" >> ELSE << >>) \o
    (IF on_ner THEN << "ner" >> ELSE << >>)

\* if self.on_tokenize ... if self.on_sent ... if self.on_pos ... if
\* self.on_ner ... return doc. _dep and _tokenize build a new Doc; _sent,
\* _pos and _ner annotate the Doc they are given.
CallStages ==
    /\ call_pc = "stages"
    /\ ran' = StagesOn
    /\ result' = IF dep_doc # << >> \/ on_tokenize THEN "new doc" ELSE "input doc"
    /\ input_mutated' = (dep_doc = << >> /\ ~on_tokenize /\ (on_sent \/ on_pos \/ on_ner))
    /\ call_pc' = "returned"
    /\ UNCHANGED <<on_tokenize, on_sent, on_pos, on_ner, dependency_parsing,
                   configured, settings_at_call, calls, dep_output, dep_i, words,
                   spaces, pos_tags, deps, heads, dep_doc, error>>
    /\ UNCHANGED <<sent_vars, ner_vars>>

\* The call is over (returned or raised); the component is called again.
CallAgain ==
    /\ call_pc \in {"returned", "raised"}
    /\ calls < MaxCalls
    /\ call_pc' = "idle"
    /\ settings_at_call' = Settings
    /\ dep_output' = << >>
    /\ dep_i' = 0
    /\ words' = << >>
    /\ spaces' = << >>
    /\ pos_tags' = << >>
    /\ deps' = << >>
    /\ heads' = << >>
    /\ dep_doc' = << >>
    /\ error' = << >>
    /\ ran' = << >>
    /\ result' = "none"
    /\ input_mutated' = FALSE
    /\ UNCHANGED <<on_tokenize, on_sent, on_pos, on_ner, dependency_parsing,
                   configured, calls>>
    /\ UNCHANGED <<sent_vars, ner_vars>>

CallNext ==
    \/ SetDependencyParsing
    \/ CallDep
    \/ CallNoDep
    \/ DepRaise
    \/ DepStep
    \/ DepReturn
    \/ CallAfterDep
    \/ CallStages
    \/ CallAgain

\* ------------------------------------------------------------------ specifications
\* A part of the component that a specification does not run stays as
\* constructed.
SentIdle ==
    /\ sentences = << >>
    /\ doc = << >>
    /\ is_sent_start = << >>
    /\ tokenized = << >>
    /\ new_tokens = << >>
    /\ number_skip = 0
    /\ seen_break = FALSE
    /\ k = 0
    /\ i = 0
    /\ pc = "idle"
    /\ writes = << >>

NerIdle ==
    /\ ner_tags = << >>
    /\ entity_spans = << >>
    /\ char_offset = 0
    /\ current_entity_label = EmptyStr
    /\ ner_i = 0
    /\ ents = << >>
    /\ ner_pc = "idle"

CallIdle ==
    /\ on_tokenize = FALSE
    /\ on_sent = TRUE
    /\ on_pos = TRUE
    /\ on_ner = TRUE
    /\ dependency_parsing = FALSE
    /\ configured = [tokenize |-> FALSE, sent |-> TRUE]
    /\ settings_at_call = Settings
    /\ calls = 0
    /\ call_pc = "in call"
    /\ NoCall

\* The component called any number of times, with dependency parsing.
Init == CallInit /\ SentIdle /\ NerIdle

Next == CallNext

Spec == Init /\ [][Next]_vars

\* Sentence alignment of one document.
InitSent == SentInit /\ NerIdle /\ CallIdle

SpecSent == InitSent /\ [][SentNext]_vars

\* Sentence alignment of one document against any stream.
InitSentAny == SentInitAny /\ NerIdle /\ CallIdle

SpecSentAny == InitSentAny /\ [][SentNext]_vars

\* Entity span building over one tag sequence.
InitNer == NerInit /\ SentIdle /\ CallIdle

SpecNer == InitNer /\ [][NerNext]_vars

\* ------------------------------------------------------------------ _sent: properties

RECURSIVE SumLen(_, _)
SumLen(ss, n) == IF n = 0 THEN 0 ELSE Len(ss[n]) + SumLen(ss, n - 1)

\* The (1-based) tokens that are the first token of a sentence span.
SentStarts == { SumLen(sentences, n) + 1 : n \in 0..(Len(sentences) - 1) }

\* The tokens after which a sentence span ends and another begins.
Cuts == { t - 1 : t \in SentStarts \ {1} }

FuseModes == {"own", "prefix", "suffix"}

\* word_tokenize(MARKER.join(sentences)): the document's tokens in order, the
\* marker between consecutive sentences as its own token ("own"), fused in
\* front of the next token ("prefix") or behind the previous one ("suffix").
RECURSIVE Retokenize(_, _, _, _)
Retokenize(d, cut, fuse, j) ==
    IF j > Len(d) THEN << >>
    ELSE LET pre  == IF (j - 1) \in cut /\ fuse[j - 1] = "prefix"
                     THEN SENTENCE_SPLIT_MARKER ELSE EmptyStr
             post == IF j \in cut /\ fuse[j] = "suffix"
                     THEN SENTENCE_SPLIT_MARKER ELSE EmptyStr
             own  == IF j \in cut /\ fuse[j] = "own"
                     THEN << SENTENCE_SPLIT_MARKER >> ELSE << >>
         IN  << pre \o d[j] \o post >> \o own \o Retokenize(d, cut, fuse, j + 1)

\* The precondition on the tokenizer: the re-tokenized text is the
\* document's tokens in order, each marker its own element or fused as a
\* prefix or suffix of a neighbouring token.
WellFormed == \E fuse \in [Cuts -> FuseModes] : tokenized = Retokenize(doc, Cuts, fuse, 1)

IsMarker(e) == Contains(e, SENTENCE_SPLIT_MARKER)

\* The number of marker elements among the first n elements of new_tokens.
RECURSIVE MarkersBefore(_)
MarkersBefore(n) ==
    IF n = 0 THEN 0
    ELSE (IF IsMarker(new_tokens[n]) THEN 1 ELSE 0) + MarkersBefore(n - 1)

NonMarkers == Len(new_tokens) - MarkersBefore(Len(new_tokens))

\* C1: with a well-formed re-tokenization, after alignment a token is flagged
\* sentence-start = true iff it is the first token of a sentence span, and
\* every other token is flagged false.
C1_StartIffFirstOfSentence ==
    (pc = "done" /\ WellFormed) =>
        \A t \in 1..Len(doc) :
            is_sent_start[t] = IF t \in SentStarts THEN "True" ELSE "False"

\* C6: when the processed stream has at least as many non-marker elements as
\* the document has tokens, every token, the last one included, ends the
\* alignment with a flag of true or false; none is left unset.
C6_EveryTokenFlagged ==
    (pc = "done" /\ NonMarkers >= Len(doc)) =>
        \A t \in 1..Len(doc) : is_sent_start[t] # "None"

\* C9: with a well-formed re-tokenization, every flag written for a non-marker
\* element at stream index p goes to the token at p minus the number of
\* markers consumed so far, and that token has the element's text.
C9_WalkSynchronised ==
    WellFormed =>
        \A w \in 1..Len(writes) :
            LET p == writes[w][1]
                t == writes[w][3]
                e == new_tokens[p + 1]
            IN  ~IsMarker(e) => /\ t = p - MarkersBefore(p)
                                /\ doc[t + 1] = e

\* C10: for every non-empty document, a one-token document included, the
\* first token is flagged sentence-start = true after alignment.
C10_FirstTokenTrue ==
    pc = "done" => is_sent_start[1] = "True"

\* C12: for any non-empty document and any stream, every flag the walk
\* writes goes to a document index in 0 .. len(doc) - 1, and no write raises
\* IndexError.
C12_WritesInRange ==
    /\ pc # "IndexError"
    /\ \A w \in 1..Len(writes) : writes[w][3] \in 0..(Len(doc) - 1)
    /\ \A t \in 1..Len(doc) :
          is_sent_start[t] # "None" => \E w \in 1..Len(writes) : writes[w][3] = t - 1

\* the walk stopped with elements of the stream left over, after a marker
\* at the head of the stream and one consumed later
C12_Witness ==
    /\ pc = "done"
    /\ Len(doc) >= 3
    /\ IsMarker(new_tokens[1])
    /\ number_skip >= 1
    /\ i + 1 < Len(new_tokens)
    /\ Len(writes) = Len(doc) - 1

\* ------------------------------------------------------------------ _ner: properties

\* The cumulative length of the first n token texts.
RECURSIVE TextLen(_)
TextLen(n) == IF n = 0 THEN 0 ELSE Len(ner_tags[n][1]) + TextLen(n - 1)

PassOver == ner_pc \in {"pass", "done"} /\ ner_i = Len(ner_tags)

\* C2: every span of the list the pass built satisfies
\* 0 <= start < end <= total text length.
C2_SpanBounds ==
    PassOver =>
        \A n \in 1..Len(entity_spans) :
            /\ 0 <= entity_spans[n][1]
            /\ entity_spans[n][1] < entity_spans[n][2]
            /\ entity_spans[n][2] <= TextLen(Len(ner_tags))

\* a pass that closed one span at an O and built another at the last token,
\* which ends at the end of the text
C2_Witness ==
    /\ ner_pc = "done"
    /\ Len(entity_spans) = 2
    /\ entity_spans[1][2] < entity_spans[2][1]
    /\ entity_spans[2][2] = TextLen(Len(ner_tags))

\* C3: the spans are ordered by start offset and do not overlap: after every
\* step, a closed span ends no later than any later span starts; in the
\* output every span but the last is closed and ends so.
C3_OrderedNoOverlap ==
    \A a, b \in 1..Len(entity_spans) :
        a < b =>
            /\ entity_spans[a][1] <= entity_spans[b][1]
            /\ entity_spans[a][2] # None => entity_spans[a][2] <= entity_spans[b][1]
            /\ PassOver => entity_spans[a][2] # None

\* mid-pass: a closed span that ends where the next, still open, span starts
C3_Witness ==
    /\ ner_pc = "pass"
    /\ ner_i < Len(ner_tags)
    /\ Len(entity_spans) = 2
    /\ entity_spans[1][2] = entity_spans[2][1]
    /\ entity_spans[1][2] > 0
    /\ entity_spans[2][2] = None

B_(label) == NER_TAG_BEGIN \o label

Word3 == <<"w", "w", "w">>

\* C7: a step at the last token, tagged B-L with no label open, appends
\* exactly the span [c, c + len(token)) labelled L, c the length of the text
\* before the token; a single token B-L yields (0, len, L); B-X, O, B-Y over
\* three 3-character tokens yields (0, 3, X) and (6, 9, Y).
C7_BeginAtLastToken ==
    /\ [][ \A label \in { <<"X">>, <<"Y">> } :
             ( /\ InPass
               /\ ner_i + 1 = Len(ner_tags)
               /\ ner_tags[ner_i + 1][2] = B_(label)
               /\ current_entity_label = EmptyStr )
             => entity_spans' = Append(entity_spans,
                                       << TextLen(ner_i),
                                          TextLen(ner_i) + Len(ner_tags[ner_i + 1][1]),
                                          label >>) ]_vars
    /\ [] \A label \in { <<"X">>, <<"Y">> } :
             (PassOver /\ Len(ner_tags) = 1 /\ ner_tags[1][2] = B_(label))
             => entity_spans = << <<0, Len(ner_tags[1][1]), label>> >>
    /\ [] ( ( /\ PassOver
              /\ ner_tags = << <<Word3, B_(<<"X">>)>>, <<Word3, NER_TAG_OUTSIDE>>,
                               <<Word3, B_(<<"Y">>)>> >> )
            => entity_spans = << <<0, 3, <<"X">>>>, <<6, 9, <<"Y">>>> >> )

\* the pass over B-X, O, B-Y is over and has built its two spans
C7_Witness ==
    /\ ner_pc = "done"
    /\ ner_tags = << <<Word3, B_(<<"X">>)>>, <<Word3, NER_TAG_OUTSIDE>>,
                     <<Word3, B_(<<"Y">>)>> >>
    /\ current_entity_label = EmptyStr
    /\ Len(entity_spans) = 2

\* C11: after the pass no span has an unset end. While tokens remain, only
\* the most recently appended span can have an unset end, and it has one
\* exactly when a label is open; an unset end is only ever filled in at a
\* token tagged O, at a token tagged B- or at the last token.
C11_EndsClosed ==
    /\ [] ( /\ PassOver => \A n \in 1..Len(entity_spans) : entity_spans[n][2] # None
            /\ \A n \in 1..(Len(entity_spans) - 1) : entity_spans[n][2] # None
            /\ (ner_pc = "pass" /\ ner_i < Len(ner_tags)) =>
                  ( (current_entity_label # EmptyStr)
                    <=> ( /\ entity_spans # << >>
                          /\ entity_spans[Len(entity_spans)][2] = None ) ) )
    /\ [][ \A n \in 1..Len(entity_spans) :
             (entity_spans[n][2] = None /\ entity_spans'[n][2] # None)
             => \/ ner_tags[ner_i + 1][2] = NER_TAG_OUTSIDE
                \/ StartsWith(ner_tags[ner_i + 1][2], NER_TAG_BEGIN)
                \/ ner_i + 1 = Len(ner_tags) ]_vars

\* the pass ended on an I- token that closed the span a B- token opened
C11_Witness ==
    /\ ner_pc = "done"
    /\ Len(ner_tags) >= 2
    /\ ner_tags[Len(ner_tags)][2] = <<"I", "-", "X">>
    /\ Len(entity_spans) = 1
    /\ entity_spans[1][2] = TextLen(Len(ner_tags))


\* Reference BIO decoding: one span per token tagged B-, from that token's
\* offset to the offset of the next token tagged O or B- (the end of the
\* text if there is none), labelled with the tag's label.
IsBegin(n) == StartsWith(ner_tags[n][2], NER_TAG_BEGIN)

EndsEntity(n) == ner_tags[n][2] = NER_TAG_OUTSIDE \/ IsBegin(n)

RefEnd(n) ==
    LET later == { m \in (n + 1)..Len(ner_tags) : EndsEntity(m) }
    IN  IF later = {} THEN TextLen(Len(ner_tags))
        ELSE TextLen((CHOOSE m \in later : \A q \in later : m <= q) - 1)

RECURSIVE RefSpans(_)
RefSpans(n) ==
    IF n = 0 THEN << >>
    ELSE IF IsBegin(n)
         THEN Append(RefSpans(n - 1),
                     << TextLen(n - 1), RefEnd(n),
                        SubSeq(ner_tags[n][2], 3, Len(ner_tags[n][2])) >>)
         ELSE RefSpans(n - 1)

\* C13: the spans the pass builds are those of reference BIO decoding: one
\* span per B- token, ending where the next O or B- token starts; no span
\* covers an O token, and a B- on the last token starts its own span even
\* when a label is open.
C13_EqualsReferenceDecoding ==
    PassOver => entity_spans = RefSpans(Len(ner_tags))

\* ------------------------------------------------------------------ _dep and __call__: properties

Short(r) == Len(r) < 10

SomeShort == \E n \in 1..Len(dep_output) : Short(dep_output[n])

\* the first record, in record order, of fewer than 10 fields
FirstShort == CHOOSE n \in 1..Len(dep_output) :
                  /\ Short(dep_output[n])
                  /\ \A m \in 1..(n - 1) : ~Short(dep_output[m])

ExpectedAtLeast ==
    <<"E", "x", "p", "e", "c", "t", "e", "d", " ", "a", "t", " ", "l", "e", "a",
      "s", "t", " ", "1", "0", " ", "f", "i", "e", "l", "d", "s">>

\* C4: a record of fewer than 10 fields makes _dep fail at the first such
\* record with a ValueError whose message contains "Expected at least 10
\* fields" and names that record's field count; no document is returned and
\* neither the input document nor the component's settings have changed.
C4_FailFast ==
    /\ call_pc = "raised" =>
          /\ SomeShort
          /\ dep_i = FirstShort - 1
          /\ Len(error) = 1
          /\ error[1].type = "ValueError"
          /\ Contains(error[1].message, ExpectedAtLeast)
          /\ EndsWith(error[1].message, <<" ">> \o Str(Len(dep_output[FirstShort])))
          /\ dep_doc = << >>
          /\ result = "none"
          /\ ~input_mutated
          /\ Settings = settings_at_call
    /\ dep_doc # << >> => ~SomeShort

\* _dep raised at a record of 9 fields that a record of 8 fields follows,
\* with the tokenize switch still on
C4_Witness ==
    /\ call_pc = "raised"
    /\ Len(dep_output) = 2
    /\ Len(dep_output[1]) = 9
    /\ Len(dep_output[2]) = 8
    /\ on_tokenize

\* The document of the records' first 10 fields: text is field 2, POS field 4,
\* head the integer of field 7, dependency label field 8.
DocOf(records) ==
    LET t == [n \in 1..Len(records) |-> SubSeq(records[n], 1, 10)]
    IN  [words  |-> [n \in 1..Len(records) |-> t[n][2]],
         spaces |-> [n \in 1..Len(records) |-> t[n][10] = "_"],
         pos    |-> [n \in 1..Len(records) |-> t[n][4]],
         deps   |-> [n \in 1..Len(records) |-> t[n][8]],
         heads  |-> [n \in 1..Len(records) |-> int(t[n][7])]]

\* C5: when every record has at least 10 fields _dep does not raise and
\* returns the document of the records' first 10 fields, one token per
\* record in record order; fields after the 10th have no effect.
C5_DocOfFirstTenFields ==
    /\ ~SomeShort => call_pc # "raised"
    /\ (call_pc = "dep" /\ dep_i = Len(dep_output)) => ~SomeShort
    /\ dep_doc # << >> =>
          /\ Len(dep_doc[1].words) = Len(dep_output)
          /\ dep_doc[1] = DocOf(dep_output)

\* _dep returned the document of a record of 11 and a record of 12 fields
C5_Witness ==
    /\ dep_doc # << >>
    /\ Len(dep_output) = 2
    /\ Len(dep_output[1]) = 11
    /\ Len(dep_output[2]) = 12

Ran(stage) == \E n \in 1..Len(ran) : ran[n] = stage

\* C8: a call leaves the configured tokenize and sentence-segmentation
\* switches unchanged, and runs tokenization and sentence segmentation
\* exactly when they are configured on and dependency parsing is off at that
\* call.
C8_SwitchesUnchanged ==
    call_pc = "returned" =>
        /\ on_tokenize = configured.tokenize
        /\ on_sent = configured.sent
        /\ Ran("tokenize") <=> (configured.tokenize /\ ~settings_at_call.dependency_parsing)
        /\ Ran("sent") <=> (configured.sent /\ ~settings_at_call.dependency_parsing)

====
